---- MODULE Spec2Model ----
(***************************************************************************)
(* Model of the soundboard data classes (Source/Soundboard.cpp) and of the *)
(* sample edit dialog (Source/SampleEditView.h).                           *)
(*                                                                         *)
(* A juce::var is a record [t, s, i, b]: t is the variant's type, and the  *)
(* field of that type holds the value (the others stay at "", 0, FALSE).   *)
(* A juce::ValueTree is a record [type, props, children]: props is a       *)
(* function from the names of the properties that are set to their vars.   *)
(***************************************************************************)
EXTENDS Integers, Sequences, FiniteSets, TLC

\* ------------------------------------------------------------------ bounds

\* The longest sample sequence a soundboard object is grown to.
MaxSamples == 2

\* The most children an incoming "samples" node carries.
MaxChildren == 2

\* ------------------------------------------------------- keys and constants

SOUNDBOARD_KEY == "soundboard"
SAMPLES_KEY == "samples"
SAMPLE_KEY == "sample"
NAME_KEY == "name"
FILE_PATH_KEY == "filePath"
LOOP_KEY == "loop"
BUTTON_COLOUR_KEY == "buttonColour"

\* SonoPlaybackProgressButton::DEFAULT_BUTTON_COLOUR (a stand-in value: the
\* button class is outside the modelled files; only its identity matters).
DEFAULT_BUTTON_COLOUR == 9

\* SampleEditView::CUSTOM_COLOUR
CUSTOM_COLOUR == -1

\* Input domains of the model.
Names == {"", "a"}
Paths == {"", "p"}
\* the custom-colour sentinel, the default, and a code outside the palette
Colours == {CUSTOM_COLOUR, DEFAULT_BUTTON_COLOUR, 5}

\* ------------------------------------------------------------- juce::var

VarVoid == [t |-> "void", s |-> "", i |-> 0, b |-> FALSE]
VarString(str) == [t |-> "string", s |-> str, i |-> 0, b |-> FALSE]
VarInt(n) == [t |-> "int", s |-> "", i |-> n, b |-> FALSE]
VarBool(x) == [t |-> "bool", s |-> "", i |-> 0, b |-> x]

\* String::getIntValue on the strings of the model: the leading decimal
\* number, 0 when there is none.
StringGetIntValue(str) ==
    CASE str = "1" -> 1
      [] str = "5" -> 5
      [] str = "-1" -> -1
      [] str = "9" -> 9
      [] OTHER -> 0

\* String (int) on the integers of the model.
IntToString(n) ==
    CASE n = 0 -> "0"
      [] n = 1 -> "1"
      [] n = 5 -> "5"
      [] n = 9 -> "9"
      [] n = -1 -> "-1"
      [] OTHER -> "?"

\* var::operator String
VarToString(v) ==
    CASE v.t = "string" -> v.s
      [] v.t = "int" -> IntToString(v.i)
      [] v.t = "bool" -> (IF v.b THEN "1" ELSE "0")
      [] OTHER -> ""

\* var::operator bool
VarToBool(v) ==
    CASE v.t = "bool" -> v.b
      [] v.t = "int" -> v.i # 0
      [] v.t = "string" -> (StringGetIntValue(v.s) # 0 \/ v.s \in {"true", "yes"})
      [] OTHER -> FALSE

\* var::operator int
VarToInt(v) ==
    CASE v.t = "int" -> v.i
      [] v.t = "bool" -> (IF v.b THEN 1 ELSE 0)
      [] v.t = "string" -> StringGetIntValue(v.s)
      [] OTHER -> 0

\* ---------------------------------------------------------- juce::ValueTree

NoProps == [k \in {} |-> VarVoid]

\* ValueTree (type): a node with no property and no child.
NewTree(type) == [type |-> type, props |-> NoProps, children |-> << >>]

\* The invalid ValueTree: what getChildWithName returns when nothing matches.
InvalidTree == NewTree("")

\* ValueTree::setProperty
SetProperty(tree, key, v) ==
    [tree EXCEPT !.props =
        [k \in (DOMAIN tree.props) \cup {key} |-> IF k = key THEN v ELSE tree.props[k]]]

HasProperty(tree, key) == key \in DOMAIN tree.props

\* ValueTree::getProperty (name): the void var when the name is not set.
GetProperty(tree, key) ==
    IF HasProperty(tree, key) THEN tree.props[key] ELSE VarVoid

\* ValueTree::getProperty (name, defaultReturnValue)
GetPropertyOr(tree, key, default) ==
    IF HasProperty(tree, key) THEN tree.props[key] ELSE default

\* ValueTree::addChild (child, index): inserted before position index
\* (0-based), at the end when index is out of range.
AddChild(tree, child, index) ==
    LET n == Len(tree.children)
        at == IF index < 0 \/ index > n THEN n ELSE index
    IN [tree EXCEPT !.children =
            SubSeq(tree.children, 1, at) \o << child >> \o SubSeq(tree.children, at + 1, n)]

\* ValueTree::getChildWithName: the first child of that type.
GetChildWithName(tree, type) ==
    LET hits == {j \in 1..Len(tree.children) : tree.children[j].type = type}
    IN IF hits = {} THEN InvalidTree
       ELSE tree.children[CHOOSE j \in hits : \A m \in hits : j <= m]

GetNumChildren(tree) == Len(tree.children)

\* ValueTree::getChild (index), 0-based.
GetChild(tree, index) == tree.children[index + 1]

\* ------------------------------------------------------------ SoundSample

\* SoundSample::SoundSample
NewSoundSample(newName, newFilePath, newLoop, colour) ==
    [name |-> newName, filePath |-> newFilePath, loop |-> newLoop, buttonColour |-> colour]

SampleSetName(s, newName) == [s EXCEPT !.name = newName]
\* A setter that writes the wrong member.
SampleSetFilePathIntoName(s, newFilePath) == [s EXCEPT !.name = newFilePath]

SampleSetFilePath(s, newFilePath) == [s EXCEPT !.filePath = newFilePath]
SampleSetLoop(s, newLoop) == [s EXCEPT !.loop = newLoop]
SampleSetButtonColour(s, newRgb) == [s EXCEPT !.buttonColour = newRgb]

\* A serialize that writes the file path under the name key.
SampleSerializePathUnderName(s) ==
    LET t0 == NewTree(SAMPLE_KEY)
        t1 == SetProperty(t0, NAME_KEY, VarString(s.name))
        t2 == SetProperty(t1, NAME_KEY, VarString(s.filePath))
        t3 == SetProperty(t2, LOOP_KEY, VarBool(s.loop))
        t4 == SetProperty(t3, BUTTON_COLOUR_KEY, VarInt(s.buttonColour))
    IN t4

\* A serialize that leaves out a text property when the text is empty.
SampleSerializeSkipEmpty(s) ==
    LET t0 == NewTree(SAMPLE_KEY)
        t1 == IF s.name = "" THEN t0 ELSE SetProperty(t0, NAME_KEY, VarString(s.name))
        t2 == IF s.filePath = "" THEN t1
              ELSE SetProperty(t1, FILE_PATH_KEY, VarString(s.filePath))
        t3 == SetProperty(t2, LOOP_KEY, VarBool(s.loop))
        t4 == SetProperty(t3, BUTTON_COLOUR_KEY, VarInt(s.buttonColour))
    IN t4

\* SoundSample::serialize
SampleSerialize(s) ==
    LET t0 == NewTree(SAMPLE_KEY)
        t1 == SetProperty(t0, NAME_KEY, VarString(s.name))
        t2 == SetProperty(t1, FILE_PATH_KEY, VarString(s.filePath))
        t3 == SetProperty(t2, LOOP_KEY, VarBool(s.loop))
        t4 == SetProperty(t3, BUTTON_COLOUR_KEY, VarInt(s.buttonColour))
    IN t4

\* A deserialize that gives the colour no default.
SampleDeserializeNoColourDefault(tree) ==
    NewSoundSample(
        VarToString(GetProperty(tree, NAME_KEY)),
        VarToString(GetProperty(tree, FILE_PATH_KEY)),
        VarToBool(GetPropertyOr(tree, LOOP_KEY, VarBool(FALSE))),
        VarToInt(GetProperty(tree, BUTTON_COLOUR_KEY)))

\* SoundSample::deserialize
SampleDeserialize(tree) ==
    NewSoundSample(
        VarToString(GetProperty(tree, NAME_KEY)),
        VarToString(GetProperty(tree, FILE_PATH_KEY)),
        VarToBool(GetPropertyOr(tree, LOOP_KEY, VarBool(FALSE))),
        VarToInt(GetPropertyOr(tree, BUTTON_COLOUR_KEY, VarInt(DEFAULT_BUTTON_COLOUR))))

\* -------------------------------------------------------------- Soundboard

\* Soundboard::Soundboard
NewSoundboard(newName) == [name |-> newName, samples |-> << >>]

BoardSetName(b, newName) == [b EXCEPT !.name = newName]

\* The loop with an index that is never advanced: every child goes to index 0.
RECURSIVE AddSamplesAtFront(_, _, _)
AddSamplesAtFront(samplesTree, samples, k) ==
    IF k > Len(samples) THEN samplesTree
    ELSE AddSamplesAtFront(AddChild(samplesTree, SampleSerialize(samples[k]), 0),
                           samples, k + 1)

\* The loop of Soundboard::serialize: sample k (and those after it) added to
\* the "samples" node at index k - 1.
RECURSIVE AddSamples(_, _, _)
AddSamples(samplesTree, samples, k) ==
    IF k > Len(samples) THEN samplesTree
    ELSE AddSamples(AddChild(samplesTree, SampleSerialize(samples[k]), k - 1), samples, k + 1)

\* A serialize that attaches a copy of the "samples" node: the children added
\* afterwards do not reach the attached node.
BoardSerializeDetached(b) ==
    LET t0 == NewTree(SOUNDBOARD_KEY)
        t1 == SetProperty(t0, NAME_KEY, VarString(b.name))
    IN AddChild(t1, NewTree(SAMPLES_KEY), 0)

\* Soundboard::serialize. The "samples" node is a shared handle: the children
\* added to it after it was attached are children of the attached node.
BoardSerialize(b) ==
    LET t0 == NewTree(SOUNDBOARD_KEY)
        t1 == SetProperty(t0, NAME_KEY, VarString(b.name))
        samplesTree == AddSamples(NewTree(SAMPLES_KEY), b.samples, 1)
    IN AddChild(t1, samplesTree, 0)

\* A loop that skips the children not tagged "sample".
RECURSIVE ReadSamplesOfType(_, _, _)
ReadSamplesOfType(samples, samplesTree, i) ==
    IF i < GetNumChildren(samplesTree)
    THEN ReadSamplesOfType(
            IF GetChild(samplesTree, i).type = SAMPLE_KEY
            THEN Append(samples, SampleDeserialize(GetChild(samplesTree, i)))
            ELSE samples,
            samplesTree, i + 1)
    ELSE samples

\* The loop of Soundboard::deserialize: children i.. of the "samples" node
\* appended to the samples (i is 0-based).
RECURSIVE ReadSamples(_, _, _)
ReadSamples(samples, samplesTree, i) ==
    IF i < GetNumChildren(samplesTree)
    THEN ReadSamples(Append(samples, SampleDeserialize(GetChild(samplesTree, i))),
                     samplesTree, i + 1)
    ELSE samples

\* Soundboard::deserialize
BoardDeserialize(tree) ==
    LET soundboard == NewSoundboard(VarToString(GetProperty(tree, NAME_KEY)))
        samplesTree == GetChildWithName(tree, SAMPLES_KEY)
    IN [soundboard EXCEPT !.samples = ReadSamples(soundboard.samples, samplesTree, 0)]

\* ------------------------------------------------------------------ inputs

\* The samples the owner of a soundboard inserts.
SamplePool ==
    { NewSoundSample("a", "p", TRUE, CUSTOM_COLOUR),
      NewSoundSample("", "", FALSE, DEFAULT_BUTTON_COLOUR),
      NewSoundSample("a", "", FALSE, 5) }

SampleKeys == {NAME_KEY, FILE_PATH_KEY, LOOP_KEY, BUTTON_COLOUR_KEY}

\* The vars an incoming node may hold under each key: the type serialize
\* writes, and the other types a stored tree can carry (text, void).
InputVars(key) ==
    CASE key = NAME_KEY -> {VarString("a"), VarInt(5)}
      [] key = FILE_PATH_KEY -> {VarString("p")}
      [] key = LOOP_KEY -> {VarBool(TRUE), VarBool(FALSE), VarString("1")}
      [] key = BUTTON_COLOUR_KEY -> {VarInt(5), VarInt(CUSTOM_COLOUR), VarString("5"), VarVoid}

AllInputVars == UNION {InputVars(k) : k \in SampleKeys}

InputProps(keys) ==
    UNION { {p \in [D -> AllInputVars] : \A k \in D : p[k] \in InputVars(k)} : D \in SUBSET keys }

\* Incoming leaf nodes: any subset of the four properties, under either tag.
SampleNodes ==
    { [type |-> tg, props |-> p, children |-> << >>] :
        tg \in {SAMPLE_KEY, "other"}, p \in InputProps(SampleKeys) }

\* The children an incoming "samples" node is built from.
ChildPool ==
    { SampleSerialize(NewSoundSample("a", "p", TRUE, 5)),
      [type |-> SAMPLE_KEY,
       props |-> (FILE_PATH_KEY :> VarString("p")) @@ (LOOP_KEY :> VarBool(TRUE)),
       children |-> << >>],
      NewTree("other"),
      [type |-> SAMPLE_KEY,
       props |-> (LOOP_KEY :> VarString("1")) @@ (FILE_PATH_KEY :> VarString("p")),
       children |-> << >>] }

SeqsUpTo(S, n) == UNION {[1..m -> S] : m \in 0..n}

SamplesNodes ==
    { [type |-> SAMPLES_KEY, props |-> NoProps, children |-> kids] :
        kids \in SeqsUpTo(ChildPool, MaxChildren) }

\* The child lists of an incoming root: no "samples" child, one, one after a
\* child of another type, and two of them.
RootChildren ==
    {<< >>}
    \cup { << sn >> : sn \in SamplesNodes }
    \cup { << NewTree("other"), sn >> : sn \in SamplesNodes }
    \cup { << sn, [type |-> SAMPLES_KEY, props |-> NoProps,
                   children |-> << NewTree(SAMPLE_KEY) >>] >> : sn \in SamplesNodes }

BoardNodes ==
    { [type |-> tg, props |-> p, children |-> ch] :
        tg \in {SOUNDBOARD_KEY, "other"}, p \in InputProps({NAME_KEY}), ch \in RootChildren }

\* ------------------------------------------------------------------- state

VARIABLES
    sample,     \* a SoundSample object
    board,      \* a Soundboard object
    tree,       \* the ValueTree the caller holds (InvalidTree: none)
    origin,     \* where tree comes from: "none", a serialize call, "extern"
    src,        \* the objects as they were when tree was serialized
    out,        \* what the last deserialize call on tree returned
    again,      \* the tree from serializing the object in out
    phase,      \* the dialog: "none" (not built), "open", "closed"
    event,      \* the event the dialog handled last
    target,     \* the SoundSample the constructor was pointed at (or null)
    atCtor,     \* target as it was when the dialog was constructed
    editModeEnabled,
    deleteSample,
    initialName,
    initialFilePath,
    nameInput,          \* the text of mNameInput
    filePathInput,      \* the text of mFilePathInput
    selectedColour,     \* the colour button picked
    lastOpenedDirectory,    \* the String the constructor was pointed at (or null)
    calls       \* the invocations of submitCallback, oldest first

dataVars == << sample, board, tree, origin, src, out, again >>

dlgVars == << phase, event, target, atCtor, editModeEnabled, deleteSample, initialName,
              initialFilePath, nameInput, filePathInput, selectedColour,
              lastOpenedDirectory, calls >>

vars == << dataVars, dlgVars >>

DefaultSample == NewSoundSample("", "", FALSE, DEFAULT_BUTTON_COLOUR)

NoSrc == [sample |-> DefaultSample, board |-> NewSoundboard("")]

NoOut == [kind |-> "none", sample |-> DefaultSample, board |-> NewSoundboard("")]

Now == [sample |-> sample, board |-> board]

\* A pointer argument of the dialog's constructor: null, or the object.
NoTarget == [present |-> FALSE, value |-> DefaultSample]
NoString == [present |-> FALSE, value |-> ""]

NothingHeld ==
    /\ tree = InvalidTree
    /\ origin = "none"
    /\ src = NoSrc
    /\ out = NoOut
    /\ again = InvalidTree

\* No dialog is built.
NoDialog ==
    /\ phase = "none"
    /\ event = "none"
    /\ target = NoTarget
    /\ atCtor = NoTarget
    /\ editModeEnabled = FALSE
    /\ deleteSample = FALSE
    /\ initialName = ""
    /\ initialFilePath = ""
    /\ nameInput = ""
    /\ filePathInput = ""
    /\ selectedColour = DEFAULT_BUTTON_COLOUR
    /\ lastOpenedDirectory = NoString
    /\ calls = << >>

Init ==
    /\ NoDialog
    /\ sample \in { NewSoundSample(n, p, l, c) :
                      n \in Names, p \in Paths, l \in BOOLEAN, c \in Colours }
    /\ board \in { NewSoundboard(n) : n \in Names }
    /\ NothingHeld

\* The objects are changed while no tree is held, or once after a serialize
\* call whose tree is still held.
CanMutate ==
    \/ origin = "none"
    \/ origin \in {"SoundSample::serialize", "Soundboard::serialize"} /\ src = Now

\* sample.setName (n) and the other setters of the SoundSample object
DoSampleSetName(n) ==
    /\ CanMutate
    /\ sample' = SampleSetName(sample, n)
    /\ UNCHANGED << board, tree, origin, src, out, again, dlgVars >>

DoSampleSetFilePath(p) ==
    /\ CanMutate
    /\ sample' = SampleSetFilePath(sample, p)
    /\ UNCHANGED << board, tree, origin, src, out, again, dlgVars >>

DoSampleSetLoop(l) ==
    /\ CanMutate
    /\ sample' = SampleSetLoop(sample, l)
    /\ UNCHANGED << board, tree, origin, src, out, again, dlgVars >>

DoSampleSetButtonColour(c) ==
    /\ CanMutate
    /\ sample' = SampleSetButtonColour(sample, c)
    /\ UNCHANGED << board, tree, origin, src, out, again, dlgVars >>

\* board.setName (n)
DoBoardSetName(n) ==
    /\ CanMutate
    /\ board' = BoardSetName(board, n)
    /\ UNCHANGED << sample, tree, origin, src, out, again, dlgVars >>

\* std::vector::insert (begin + at, s) on the vector getSamples returns
VectorInsert(samples, at, s) ==
    SubSeq(samples, 1, at) \o << s >> \o SubSeq(samples, at + 1, Len(samples))

\* std::vector::erase (begin + at) on the vector getSamples returns
VectorErase(samples, at) ==
    SubSeq(samples, 1, at) \o SubSeq(samples, at + 2, Len(samples))

\* board.getSamples().insert (begin + at, s)
DoInsertSample(s, at) ==
    /\ CanMutate
    /\ Len(board.samples) < MaxSamples
    /\ at \in 0..Len(board.samples)
    /\ board' = [board EXCEPT !.samples = VectorInsert(@, at, s)]
    /\ UNCHANGED << sample, tree, origin, src, out, again, dlgVars >>

\* board.getSamples().erase (begin + at)
DoRemoveSample(at) ==
    /\ CanMutate
    /\ at \in 0..(Len(board.samples) - 1)
    /\ board' = [board EXCEPT !.samples = VectorErase(@, at)]
    /\ UNCHANGED << sample, tree, origin, src, out, again, dlgVars >>

\* tree = sample.serialize ()
DoSampleSerialize ==
    /\ origin # "extern"
    /\ tree' = SampleSerialize(sample)
    /\ origin' = "SoundSample::serialize"
    /\ src' = Now
    /\ out' = NoOut
    /\ UNCHANGED << sample, board, again, dlgVars >>

\* tree = board.serialize ()
DoBoardSerialize ==
    /\ origin # "extern"
    /\ tree' = BoardSerialize(board)
    /\ origin' = "Soundboard::serialize"
    /\ src' = Now
    /\ out' = NoOut
    /\ UNCHANGED << sample, board, again, dlgVars >>

\* The trees a deserialize call is given: the one held, or an incoming one
\* when none is held.
Held == IF origin \in {"SoundSample::serialize", "Soundboard::serialize"} THEN {tree} ELSE {}

Incoming(nodes) == IF origin = "none" THEN nodes ELSE {}

\* out = SoundSample::deserialize (t)
DoSampleDeserialize(t) ==
    /\ out' = [NoOut EXCEPT !.kind = "sample", !.sample = SampleDeserialize(t)]
    /\ tree' = t
    /\ origin' = IF origin = "none" THEN "extern" ELSE origin
    /\ UNCHANGED << sample, board, src, again, dlgVars >>

\* out = Soundboard::deserialize (t)
DoBoardDeserialize(t) ==
    /\ out' = [NoOut EXCEPT !.kind = "board", !.board = BoardDeserialize(t)]
    /\ tree' = t
    /\ origin' = IF origin = "none" THEN "extern" ELSE origin
    /\ UNCHANGED << sample, board, src, again, dlgVars >>

\* again = out.serialize (): the object just read is written back.
DoOutSerialize ==
    /\ origin = "extern"
    /\ out.kind # "none"
    /\ again = InvalidTree
    /\ again' = IF out.kind = "sample" THEN SampleSerialize(out.sample)
                ELSE BoardSerialize(out.board)
    /\ UNCHANGED << sample, board, tree, origin, src, out, dlgVars >>

\* The caller lets go of the trees it holds.
Release ==
    /\ origin # "none"
    /\ tree' = InvalidTree
    /\ origin' = "none"
    /\ src' = NoSrc
    /\ out' = NoOut
    /\ again' = InvalidTree
    /\ UNCHANGED << sample, board, dlgVars >>

\* The objects' life: built, changed, written and read back.
Next ==
    \/ \E n \in Names : DoSampleSetName(n)
    \/ \E p \in Paths : DoSampleSetFilePath(p)
    \/ \E l \in BOOLEAN : DoSampleSetLoop(l)
    \/ \E c \in Colours : DoSampleSetButtonColour(c)
    \/ \E n \in Names : DoBoardSetName(n)
    \/ \E s \in SamplePool, at \in 0..MaxSamples : DoInsertSample(s, at)
    \/ \E at \in 0..MaxSamples : DoRemoveSample(at)
    \/ DoSampleSerialize
    \/ DoBoardSerialize
    \/ \E t \in Held : DoSampleDeserialize(t)
    \/ \E t \in Held : DoBoardDeserialize(t)
    \/ Release

Spec == Init /\ [][Next]_vars

\* Reading trees that come from storage.
LoadInit ==
    /\ NoDialog
    /\ sample = DefaultSample
    /\ board = NewSoundboard("")
    /\ NothingHeld

LoadNext ==
    \/ \E t \in Incoming(SampleNodes) : DoSampleDeserialize(t)
    \/ \E t \in Incoming(BoardNodes) : DoBoardDeserialize(t)
    \/ DoOutSerialize
    \/ Release

LoadSpec == LoadInit /\ [][LoadNext]_vars

\* ------------------------------------------------------- SampleEditView

\* What the user types, and the files the chooser offers.
NameTexts == {"", "a"}
PathTexts == {"", "p"}
ChosenFiles == {"dir/f.wav"}

\* File::getParentDirectory and File::getFileNameWithoutExtension on the
\* files of the model.
ParentDirectory(file) == IF file = "dir/f.wav" THEN "dir" ELSE ""
FileNameWithoutExtension(file) == IF file = "dir/f.wav" THEN "f" ELSE file

\* A dialog that edits the sample it was given in place.
TargetWrittenThrough(t, field, value) ==
    IF t.present THEN [t EXCEPT !.value[field] = value] ELSE t

\* The sample arrives as const SoundSample*: the dialog reads it and cannot
\* write it. What the object is after the dialog handled an edit of a field.
TargetAfterEdit(t, field, value) == t

\* A flag that starts out set.
DeleteSampleInitiallySet == TRUE

\* bool deleteSample = false;
DeleteSampleInitially == FALSE

\* String initialName = ""; String initialFilePath = "";
InitialText == ""

isEditMode == editModeEnabled

\* A create mode test without its negation.
isCreateModeSame == editModeEnabled

isCreateMode == ~editModeEnabled

isDeleteSample == deleteSample

getSampleName == nameInput

getAbsoluteFilePath == filePathInput

\* submitCallback (*this): the callback reads the view's getters.
Invoke == Append(calls, [name |-> getSampleName',
                        filePath |-> getAbsoluteFilePath',
                        delete |-> isDeleteSample'])

\* SampleEditView (callback, soundSample, lastOpenedDirectoryString)
Construct(soundSample, directoryString) ==
    /\ phase \in {"none", "closed"}
    /\ phase' = "open"
    /\ event' = "construct"
    /\ target' = soundSample
    /\ atCtor' = soundSample
    /\ editModeEnabled' = soundSample.present
    /\ deleteSample' = DeleteSampleInitially
    /\ initialName' = IF soundSample.present THEN soundSample.value.name ELSE InitialText
    /\ initialFilePath' = IF soundSample.present THEN soundSample.value.filePath
                          ELSE InitialText
    /\ nameInput' = initialName'
    /\ filePathInput' = initialFilePath'
    /\ selectedColour' = IF soundSample.present THEN soundSample.value.buttonColour
                         ELSE DEFAULT_BUTTON_COLOUR
    /\ lastOpenedDirectory' = directoryString
    /\ calls' = << >>
    /\ UNCHANGED dataVars

\* The user types in the name field.
EditName(text) ==
    /\ phase = "open"
    /\ event' = "editName"
    /\ nameInput' = text
    /\ target' = TargetAfterEdit(target, "name", text)
    /\ UNCHANGED << phase, atCtor, editModeEnabled, deleteSample, initialName,
                    initialFilePath, filePathInput, selectedColour,
                    lastOpenedDirectory, calls, dataVars >>

\* The user types in the file path field.
EditFilePath(text) ==
    /\ phase = "open"
    /\ event' = "editFilePath"
    /\ filePathInput' = text
    /\ target' = TargetAfterEdit(target, "filePath", text)
    /\ UNCHANGED << phase, atCtor, editModeEnabled, deleteSample, initialName,
                    initialFilePath, nameInput, selectedColour,
                    lastOpenedDirectory, calls, dataVars >>

\* browseFilePath: the chosen file goes to the file path field, its directory
\* to *lastOpenedDirectory when that is not null, and inferSampleName may fill
\* in the name field from the file name.
BrowseFilePath(file, infer) ==
    /\ phase = "open"
    /\ event' = "browse"
    /\ filePathInput' = file
    /\ nameInput' = IF infer THEN FileNameWithoutExtension(file) ELSE nameInput
    /\ lastOpenedDirectory' =
          IF lastOpenedDirectory.present
          THEN [lastOpenedDirectory EXCEPT !.value = ParentDirectory(file)]
          ELSE lastOpenedDirectory
    /\ target' = TargetAfterEdit(TargetAfterEdit(target, "filePath", file),
                                 "name", nameInput')
    /\ UNCHANGED << phase, atCtor, editModeEnabled, deleteSample, initialName,
                    initialFilePath, selectedColour, calls, dataVars >>

\* A colour button is clicked.
PickColour(colour) ==
    /\ phase = "open"
    /\ event' = "pickColour"
    /\ selectedColour' = colour
    /\ target' = TargetAfterEdit(target, "buttonColour", colour)
    /\ UNCHANGED << phase, atCtor, editModeEnabled, deleteSample, initialName,
                    initialFilePath, nameInput, filePathInput,
                    lastOpenedDirectory, calls, dataVars >>

\* submitDialog, the input passing validation: the callback runs and the
\* dialog is dismissed.
SubmitDialog ==
    /\ phase = "open"
    /\ event' = "submit"
    /\ UNCHANGED << target, atCtor, editModeEnabled, deleteSample, initialName,
                    initialFilePath, nameInput, filePathInput, selectedColour,
                    lastOpenedDirectory, dataVars >>
    /\ calls' = Invoke
    /\ phase' = "closed"

\* submitDialog, the input failing validation: the dialog stays open.
SubmitRejected ==
    /\ phase = "open"
    /\ event' = "submitRejected"
    /\ UNCHANGED << phase, target, atCtor, editModeEnabled, deleteSample, initialName,
                    initialFilePath, nameInput, filePathInput, selectedColour,
                    lastOpenedDirectory, calls, dataVars >>

\* The delete button: the flag is set, the callback runs and the dialog is
\* dismissed.
DeleteClicked ==
    /\ phase = "open"
    /\ event' = "delete"
    /\ deleteSample' = TRUE
    /\ UNCHANGED << target, atCtor, editModeEnabled, initialName,
                    initialFilePath, nameInput, filePathInput, selectedColour,
                    lastOpenedDirectory, dataVars >>
    /\ calls' = Invoke
    /\ phase' = "closed"

\* dismissDialog, reached without submit or delete.
DismissDialog ==
    /\ phase = "open"
    /\ event' = "dismiss"
    /\ phase' = "closed"
    /\ UNCHANGED << target, atCtor, editModeEnabled, deleteSample, initialName,
                    initialFilePath, nameInput, filePathInput, selectedColour,
                    lastOpenedDirectory, calls, dataVars >>

Targets == {NoTarget} \cup { [present |-> TRUE, value |-> s] : s \in SamplePool }

DirectoryStrings == {NoString, [present |-> TRUE, value |-> ""]}

DialogNext ==
    \/ \E t \in Targets, d \in DirectoryStrings : Construct(t, d)
    \/ \E text \in NameTexts : EditName(text)
    \/ \E text \in PathTexts : EditFilePath(text)
    \/ \E file \in ChosenFiles, infer \in BOOLEAN : BrowseFilePath(file, infer)
    \/ \E colour \in Colours : PickColour(colour)
    \/ SubmitDialog
    \/ SubmitRejected
    \/ DeleteClicked
    \/ DismissDialog

\* No dialog is built yet; the data objects stay as constructed.
DialogInit == LoadInit

DialogSpec == DialogInit /\ [][DialogNext]_vars

\* ------------------------------------------------------------------ claims

SameFields(a, b) ==
    /\ a.name = b.name
    /\ a.filePath = b.filePath
    /\ a.loop = b.loop
    /\ a.buttonColour = b.buttonColour

\* C1: deserializing the tree a SoundSample was serialized to gives a sample
\* with the same name, file path, loop flag and button colour, whatever their
\* values (src.sample is the sample as it was when it was serialized).
C1_SampleRoundTrip ==
    (origin = "SoundSample::serialize" /\ out.kind = "sample")
        => SameFields(out.sample, src.sample)

C1_Witness ==
    /\ origin = "SoundSample::serialize"
    /\ out.kind = "sample"
    /\ src.sample = NewSoundSample("a", "p", TRUE, CUSTOM_COLOUR)

\* C2: deserializing the tree a Soundboard was serialized to gives a board
\* with the same name and the same samples, one for one and in order, after
\* any setName calls, insertions and removals (and with no sample at all).
C2_BoardRoundTrip ==
    (origin = "Soundboard::serialize" /\ out.kind = "board")
        => /\ out.board.name = src.board.name
           /\ Len(out.board.samples) = Len(src.board.samples)
           /\ \A i \in 1..Len(src.board.samples) :
                 SameFields(out.board.samples[i], src.board.samples[i])

C2_Witness ==
    /\ origin = "Soundboard::serialize"
    /\ out.kind = "board"
    /\ Len(src.board.samples) = 2
    /\ src.board.samples[1] # src.board.samples[2]
    /\ src.board.name = "a"

\* C3: a sample node without the loop property reads as loop = false, one
\* without the colour property as DEFAULT_BUTTON_COLOUR, whichever other
\* properties it has; a property that is there, holding a value of the
\* field's type, is read as that value.
C3_SampleDefaults ==
    (origin = "extern" /\ out.kind = "sample")
        => /\ ~HasProperty(tree, LOOP_KEY) => out.sample.loop = FALSE
           /\ ~HasProperty(tree, BUTTON_COLOUR_KEY)
                 => out.sample.buttonColour = DEFAULT_BUTTON_COLOUR
           /\ (HasProperty(tree, LOOP_KEY) /\ tree.props[LOOP_KEY].t = "bool")
                 => out.sample.loop = tree.props[LOOP_KEY].b
           /\ (HasProperty(tree, BUTTON_COLOUR_KEY) /\ tree.props[BUTTON_COLOUR_KEY].t = "int")
                 => out.sample.buttonColour = tree.props[BUTTON_COLOUR_KEY].i
           /\ (HasProperty(tree, NAME_KEY) /\ tree.props[NAME_KEY].t = "string")
                 => out.sample.name = tree.props[NAME_KEY].s
           /\ (HasProperty(tree, FILE_PATH_KEY) /\ tree.props[FILE_PATH_KEY].t = "string")
                 => out.sample.filePath = tree.props[FILE_PATH_KEY].s

C3_Witness ==
    /\ origin = "extern"
    /\ out.kind = "sample"
    /\ DOMAIN tree.props = {NAME_KEY, LOOP_KEY}
    /\ tree.props[LOOP_KEY] = VarBool(TRUE)
    /\ out.sample.buttonColour = DEFAULT_BUTTON_COLOUR

\* C4: the tree a Soundboard is serialized to is tagged "soundboard", holds
\* the name, and has one child, tagged "samples", whose children are the
\* samples in order, each tagged "sample" and holding all four properties.
C4_BoardLayout ==
    origin = "Soundboard::serialize"
        => /\ tree.type = "soundboard"
           /\ DOMAIN tree.props = {"name"}
           /\ tree.props["name"] = VarString(src.board.name)
           /\ Len(tree.children) = 1
           /\ tree.children[1].type = "samples"
           /\ Len(tree.children[1].children) = Len(src.board.samples)
           /\ \A i \in 1..Len(src.board.samples) :
                 LET node == tree.children[1].children[i]
                     s == src.board.samples[i]
                 IN /\ node.type = "sample"
                    /\ node.children = << >>
                    /\ DOMAIN node.props = {"name", "filePath", "loop", "buttonColour"}
                    /\ node.props["name"] = VarString(s.name)
                    /\ node.props["filePath"] = VarString(s.filePath)
                    /\ node.props["loop"] = VarBool(s.loop)
                    /\ node.props["buttonColour"] = VarInt(s.buttonColour)

C4_Witness ==
    /\ origin = "Soundboard::serialize"
    /\ Len(src.board.samples) = 2
    /\ src.board.samples[1] # src.board.samples[2]

\* The positions of the children of node t that are tagged "samples".
SamplesAt(t) == {j \in 1..Len(t.children) : t.children[j].type = "samples"}

\* C8: Soundboard::deserialize of any node gives one sample per child of the
\* node's (first) "samples" child, in order, each SoundSample::deserialize of
\* that child whatever its tag, and no sample when there is no such child.
C8_BoardReadsEveryChild ==
    (origin = "extern" /\ out.kind = "board")
        => /\ SamplesAt(tree) = {} => out.board.samples = << >>
           /\ \A j \in SamplesAt(tree) :
                 (\A m \in SamplesAt(tree) : j <= m)
                    => /\ Len(out.board.samples) = Len(tree.children[j].children)
                       /\ \A i \in 1..Len(tree.children[j].children) :
                             out.board.samples[i]
                                = SampleDeserialize(tree.children[j].children[i])

C8_Witness ==
    /\ origin = "extern"
    /\ out.kind = "board"
    /\ SamplesAt(tree) # {}
    /\ \E j \in SamplesAt(tree) :
          /\ Len(tree.children[j].children) = 2
          /\ tree.children[j].children[1].type = "other"
          /\ tree.children[j].children[2].type = "sample"
          /\ Len(out.board.samples) = 2

\* A sample node as serialize writes it, some properties possibly missing.
WrittenSampleNode(t) ==
    /\ t.type = "sample"
    /\ t.children = << >>
    /\ DOMAIN t.props \subseteq SampleKeys
    /\ HasProperty(t, "name") => t.props["name"].t = "string"
    /\ HasProperty(t, "filePath") => t.props["filePath"].t = "string"
    /\ HasProperty(t, "loop") => t.props["loop"].t = "bool"
    /\ HasProperty(t, "buttonColour") => t.props["buttonColour"].t = "int"

\* A soundboard node as serialize writes it, some properties possibly missing.
WrittenBoardNode(t) ==
    /\ t.type = "soundboard"
    /\ DOMAIN t.props \subseteq {"name"}
    /\ HasProperty(t, "name") => t.props["name"].t = "string"
    /\ Len(t.children) = 1
    /\ t.children[1].type = "samples"
    /\ t.children[1].props = NoProps
    /\ \A i \in 1..Len(t.children[1].children) :
          WrittenSampleNode(t.children[1].children[i])

\* The value a field takes when its property is missing, as a var.
DefaultedVar(key) ==
    CASE key = "loop" -> VarBool(FALSE)
      [] key = "buttonColour" -> VarInt(DEFAULT_BUTTON_COLOUR)
      [] OTHER -> VarString("")

\* Node t with the missing ones of keys added, each at its defaulted value.
WithDefaults(t, keys) ==
    [t EXCEPT !.props =
        [k \in keys |-> IF k \in DOMAIN t.props THEN t.props[k] ELSE DefaultedVar(k)]]

\* C9: a sample node without the name or file path, or a soundboard node
\* without the name, is read with the empty string for the missing text and
\* the other fields as usual; serializing what was read gives the node with
\* the missing properties added at their defaulted values, nothing else
\* changed.
C9_MissingTextReadsEmpty ==
    /\ (origin = "extern" /\ out.kind = "sample" /\ WrittenSampleNode(tree))
          => /\ ~HasProperty(tree, "name") => out.sample.name = ""
             /\ ~HasProperty(tree, "filePath") => out.sample.filePath = ""
             /\ HasProperty(tree, "name") => out.sample.name = tree.props["name"].s
             /\ HasProperty(tree, "filePath")
                   => out.sample.filePath = tree.props["filePath"].s
             /\ HasProperty(tree, "loop") => out.sample.loop = tree.props["loop"].b
             /\ HasProperty(tree, "buttonColour")
                   => out.sample.buttonColour = tree.props["buttonColour"].i
             /\ again # InvalidTree => again = WithDefaults(tree, SampleKeys)
    /\ (origin = "extern" /\ out.kind = "board" /\ WrittenBoardNode(tree))
          => /\ ~HasProperty(tree, "name") => out.board.name = ""
             /\ HasProperty(tree, "name") => out.board.name = tree.props["name"].s
             /\ Len(out.board.samples) = Len(tree.children[1].children)
             /\ again # InvalidTree
                   => again =
                        [WithDefaults(tree, {"name"}) EXCEPT !.children[1].children =
                            [i \in 1..Len(tree.children[1].children) |->
                                WithDefaults(tree.children[1].children[i], SampleKeys)]]

C9_Witness ==
    /\ origin = "extern"
    /\ out.kind = "board"
    /\ WrittenBoardNode(tree)
    /\ ~HasProperty(tree, "name")
    /\ Len(tree.children[1].children) = 2
    /\ ~HasProperty(tree.children[1].children[1], "name")
    /\ HasProperty(tree.children[1].children[2], "name")
    /\ again # InvalidTree
    /\ again # tree

\* C10, the steps: a setter changes its own field to the value passed and
\* nothing else, and serialize changes no field of either object.
C10_Steps ==
    /\ \A n \in Names : DoSampleSetName(n) =>
          /\ sample'.name = n
          /\ sample'.filePath = sample.filePath
          /\ sample'.loop = sample.loop
          /\ sample'.buttonColour = sample.buttonColour
          /\ board' = board /\ tree' = tree
    /\ \A p \in Paths : DoSampleSetFilePath(p) =>
          /\ sample'.filePath = p
          /\ sample'.name = sample.name
          /\ sample'.loop = sample.loop
          /\ sample'.buttonColour = sample.buttonColour
          /\ board' = board /\ tree' = tree
    /\ \A l \in BOOLEAN : DoSampleSetLoop(l) =>
          /\ sample'.loop = l
          /\ sample'.name = sample.name
          /\ sample'.filePath = sample.filePath
          /\ sample'.buttonColour = sample.buttonColour
          /\ board' = board /\ tree' = tree
    /\ \A c \in Colours : DoSampleSetButtonColour(c) =>
          /\ sample'.buttonColour = c
          /\ sample'.name = sample.name
          /\ sample'.filePath = sample.filePath
          /\ sample'.loop = sample.loop
          /\ board' = board /\ tree' = tree
    /\ \A n \in Names : DoBoardSetName(n) =>
          /\ board'.name = n
          /\ board'.samples = board.samples
          /\ sample' = sample /\ tree' = tree
    /\ DoSampleSerialize => (sample' = sample /\ board' = board)
    /\ DoBoardSerialize => (sample' = sample /\ board' = board)

\* C10, the tree: while it is held, the tree a serialize call returned shows
\* the object as it was at the call, whatever setters ran since.
C10_TreeKept ==
    /\ origin = "SoundSample::serialize" => tree = SampleSerialize(src.sample)
    /\ origin = "Soundboard::serialize" => tree = BoardSerialize(src.board)

\* C10: each setter of SoundSample and Soundboard::setName changes only its
\* own field, to the value passed; serialize leaves the object as it is, and
\* the tree it returned is not changed by setters called afterwards.
C10_SettersAndSerializeFrame == [][C10_Steps]_vars /\ []C10_TreeKept

C10_Witness ==
    /\ origin = "SoundSample::serialize"
    /\ sample.filePath # src.sample.filePath
    /\ sample.name = src.sample.name
    /\ Len(board.samples) = 1

C7_ModeOfConstruction ==
    phase # "none"
        => /\ isEditMode <=> atCtor.present
           /\ isCreateMode <=> ~atCtor.present
           /\ isEditMode # isCreateMode

\* C7, the steps: no event a dialog handles changes its mode.
C7_ModeStep ==
    phase = "open" => (isEditMode' = isEditMode /\ isCreateMode' = isCreateMode)

\* C7: edit mode exactly when constructed on a non-null sample, create mode
\* exactly when constructed on null; exactly one of isEditMode() and
\* isCreateMode() holds in every state; the mode never changes afterwards.
C7_ExactlyOneModeForLife == []C7_ModeOfConstruction /\ [][C7_ModeStep]_vars

C7_Witness ==
    /\ phase = "closed"
    /\ event = "submit"
    /\ isEditMode
    /\ nameInput # initialName

====
